---- MODULE Spec2Model ----
(***************************************************************************)
(* video-gen: the pipeline orchestrator (src/video_gen/pipeline.py), the   *)
(* Wan video generator's load/unload lifecycle (src/video_gen/video/wan.py)*)
(* and the artifacts the run leaves in its output directory.               *)
(*                                                                         *)
(* run_pipeline is one sequential function.  It is modelled as a process   *)
(* with a program counter pc; each action is one stretch of the function   *)
(* between two collaborator calls, with the collaborator's outcome drawn   *)
(* from the outcomes the call can have.  Durations are in tenths of a      *)
(* second.                                                                 *)
(*                                                                         *)
(* Further specifications run single components on inputs of their own:    *)
(* SpecScript (VideoScript construction and the JSON round trip),          *)
(* SpecSegment (Compositor._prepare_segment), SpecCompose                  *)
(* (Compositor.compose), SpecWan (one WanVideoGenerator under any calls),  *)
(* SpecOllama (OllamaScriptGenerator.generate) and SpecCli (the create and *)
(* script commands).                                                       *)
(***************************************************************************)
EXTENDS Integers, Sequences, FiniteSets, TLC

VARIABLES
    skip_video,        \* run_pipeline's skip_video argument
    reference_voice,   \* the reference audio the run uses, or None
    pc,                \* position of run_pipeline
    script,            \* the VideoScript returned by generate_script
    disk,              \* output_dir: file name -> content
    tts_results,       \* list of TTSResult, in append order
    clip_paths,        \* list of clip paths, in append order
    scene_idx,         \* position in script.scenes of the CLIPS loop
    pipe,              \* WanVideoGenerator._pipe
    clips_with_audio,  \* the list handed to Compositor.compose
    log,               \* collaborator calls in order of invocation
    outcome,           \* how run_pipeline ended: return value or raised error
    resume,            \* compose_from_directory run on output_dir afterwards
    candidate,         \* the data a VideoScript is constructed from
    constructed,       \* the result of that construction
    reloaded,          \* the script dumped to JSON and validated from it again
    clip_info,         \* the ClipWithAudio given to Compositor._prepare_segment
    segment,           \* the clip _prepare_segment returns
    ollama,            \* a call of OllamaScriptGenerator.generate
    composition,       \* a call of Compositor.compose
    cli                \* an invocation of a command of the CLI

\* the state of run_pipeline
pipeline == <<skip_video, reference_voice, pc, script, disk, tts_results,
              clip_paths, scene_idx, pipe, clips_with_audio, log, outcome>>

\* the state of a VideoScript construction
validation == <<candidate, constructed, reloaded>>

\* the state of a segment preparation
preparation == <<clip_info, segment>>

\* the state of the calls made on single components
components == <<ollama, composition, cli>>

vars == <<pipeline, resume, validation, preparation, components>>

----------------------------------------------------------------------------
(* Bounds *)

\* largest number of scenes of a generated script
MaxScenes == 5

\* VideoScript.scenes min_length
MinScenes == 3


----------------------------------------------------------------------------
(* Values *)

None == "None"

NoScript == [title |-> None, topic |-> None, scenes |-> <<>>,
             style_notes |-> None, negative_prompt |-> None]

Digit == <<"0", "1", "2", "3", "4", "5", "6", "7", "8", "9">>

\* f"{n:02d}"
Fmt02(n) ==
    IF n < 10 THEN "0" \o Digit[n + 1]
    ELSE Digit[(n \div 10) + 1] \o Digit[(n % 10) + 1]

ScriptPath == "script.json"

AudioPath(scene_number) == "scene_" \o Fmt02(scene_number) \o "_audio.wav"

ClipPath(scene_number) == "scene_" \o Fmt02(scene_number) \o "_clip.mp4"

FinalPath == "final.mp4"

\* lines 77-82: the reference_voice argument or, when None, the first *.wav
\* of REFERENCE_VOICES_DIR if there is one
ReferenceVoices == {None, "narrator.wav"}

\* f"{script.style_notes}. {scene.video_prompt}"
FullPrompt(s, scene) == s.style_notes \o ". " \o scene.video_prompt

\* A script as the provider returns it for the topic: n scenes numbered 1..n,
\* each 5.0 s, which VideoScript accepts for 3 <= n <= 12 (total 15..60 s).
Scene(n) ==
    [scene_number |-> n,
     video_prompt |-> "video prompt " \o Fmt02(n),
     narration_text |-> "narration " \o Fmt02(n),
     duration_seconds |-> 50]

MkScript(n) ==
    [title |-> "title", topic |-> "topic",
     scenes |-> [i \in 1..n |-> Scene(i)],
     style_notes |-> "cinematic",
     negative_prompt |-> "blurry, low quality, distorted, watermark, text overlay"]

\* path.write_text(content) and the collaborators' writes of their artifacts
WriteFile(d, path, content) ==
    [p \in (DOMAIN d) \cup {path} |-> IF p = path THEN content ELSE d[p]]

Call(op, scene, args, result) ==
    [op |-> op, scene |-> scene, args |-> args, result |-> result]

NoOutcome == [kind |-> "running", value |-> None]

Returned(path) == [kind |-> "return", value |-> path]

Raised(err) == [kind |-> "raise", value |-> err]

----------------------------------------------------------------------------
(* VideoScript construction (models/script.py) *)

\* Scene.scene_number ge
MinSceneNumber == 1

\* Scene.video_prompt min_length
MinPromptLength == 10

\* Scene.narration_text min_length
MinNarrationLength == 1

\* Scene.duration_seconds ge and le (2.0 s and 6.0 s)
MinSceneDuration == 20

MaxSceneDuration == 60

\* VideoScript.scenes max_length
MaxSceneCount == 12

\* validate_total_duration: 15 s and 60 s
MinTotalDuration == 150

MaxTotalDuration == 600

\* SceneValid with the upper limit of duration_seconds left out
SceneValid_noMaxDuration(s) ==
    /\ s.scene_number >= MinSceneNumber
    /\ Len(s.video_prompt) >= MinPromptLength
    /\ Len(s.narration_text) >= MinNarrationLength
    /\ s.duration_seconds >= MinSceneDuration

\* the Field constraints of Scene
SceneValid(s) ==
    /\ s.scene_number >= MinSceneNumber
    /\ Len(s.video_prompt) >= MinPromptLength
    /\ Len(s.narration_text) >= MinNarrationLength
    /\ s.duration_seconds >= MinSceneDuration
    /\ s.duration_seconds <= MaxSceneDuration

\* the Field constraints of VideoScript.scenes and of each of its scenes
FieldsValid(data) ==
    /\ Len(data.scenes) >= MinScenes
    /\ Len(data.scenes) <= MaxSceneCount
    /\ \A i \in 1..Len(data.scenes) : SceneValid(data.scenes[i])

\* sum(s.duration_seconds for s in self.scenes)
RECURSIVE SumDurations(_)
SumDurations(scenes) ==
    IF scenes = <<>> THEN 0
    ELSE Head(scenes).duration_seconds + SumDurations(Tail(scenes))

\* ValidateTotalDuration with the test of the maximum left out
ValidateTotalDuration_noMax(scenes) ==
    IF SumDurations(scenes) < MinTotalDuration THEN "total below minimum" ELSE "ok"

\* VideoScript.validate_total_duration
ValidateTotalDuration(scenes) ==
    LET total == SumDurations(scenes)
    IN  CASE total < MinTotalDuration -> "total below minimum"
          [] total > MaxTotalDuration -> "total above maximum"
          [] OTHER -> "ok"

\* VideoScript(**data) and VideoScript.model_validate_json: the field
\* constraints first, then the "after" validator; any failure is a
\* ValidationError
VideoScriptConstruct(data) ==
    IF ~FieldsValid(data)
    THEN [ok |-> FALSE, error |-> "field constraint"]
    ELSE LET verdict == ValidateTotalDuration(data.scenes)
         IN  [ok |-> verdict = "ok", error |-> IF verdict = "ok" THEN None ELSE verdict]

\* script.model_dump(): the dict of the model's fields, scenes as dicts
ModelDump(s) ==
    [title |-> s.title, topic |-> s.topic,
     scenes |-> [i \in 1..Len(s.scenes) |->
        [scene_number |-> s.scenes[i].scene_number,
         video_prompt |-> s.scenes[i].video_prompt,
         narration_text |-> s.scenes[i].narration_text,
         duration_seconds |-> s.scenes[i].duration_seconds]],
     style_notes |-> s.style_notes,
     negative_prompt |-> s.negative_prompt]

\* the JSON text of an int
IntText(n) ==
    IF n < 10 THEN Digit[n + 1]
    ELSE Digit[(n \div 10) + 1] \o Digit[(n % 10) + 1]

\* FloatText that writes whole seconds only
FloatText_truncated(d) == IntText(d \div 10) \o ".0"

\* the JSON text of a float, repr(float): 5.0 is "5.0", 2.5 is "2.5"
FloatText(d) == IntText(d \div 10) \o "." \o Digit[(d % 10) + 1]

\* the JSON text of a str; the escapes json.dumps writes are the ones the
\* parser reads back, the characters themselves are kept as they are
JsonString(s) == [string |-> s]

\* json.dumps(data, indent=2): every leaf of the dict as JSON text
JsonDumps(data) ==
    [title |-> JsonString(data.title), topic |-> JsonString(data.topic),
     scenes |-> [i \in 1..Len(data.scenes) |->
        [scene_number |-> IntText(data.scenes[i].scene_number),
         video_prompt |-> JsonString(data.scenes[i].video_prompt),
         narration_text |-> JsonString(data.scenes[i].narration_text),
         duration_seconds |-> FloatText(data.scenes[i].duration_seconds)]],
     style_notes |-> JsonString(data.style_notes),
     negative_prompt |-> JsonString(data.negative_prompt)]

\* a JSON number read into an int field
ParseInt(text) == CHOOSE n \in 0..99 : IntText(n) = text

\* a JSON number read into a float field: a float, or an int taken as float
ParseFloat(text) ==
    IF \E d \in 0..99 : FloatText(d) = text
    THEN CHOOSE d \in 0..99 : FloatText(d) = text
    ELSE 10 * ParseInt(text)

\* the parse of the JSON text of script.json
JsonLoads(text) ==
    [title |-> text.title.string, topic |-> text.topic.string,
     scenes |-> [i \in 1..Len(text.scenes) |->
        [scene_number |-> ParseInt(text.scenes[i].scene_number),
         video_prompt |-> text.scenes[i].video_prompt.string,
         narration_text |-> text.scenes[i].narration_text.string,
         duration_seconds |-> ParseFloat(text.scenes[i].duration_seconds)]],
     style_notes |-> text.style_notes.string,
     negative_prompt |-> text.negative_prompt.string]

NotLoaded == [ok |-> FALSE, error |-> "not loaded", script |-> NoScript]

\* VideoScript.model_validate_json(text): parse, then construct
ModelValidateJson(text) ==
    LET data == JsonLoads(text)
        result == VideoScriptConstruct(data)
    IN  [ok |-> result.ok, error |-> result.error,
         script |-> IF result.ok THEN data ELSE NoScript]

\* Inputs of the construction: n scenes, the last one with a duration and
\* texts of its own, numbered in one of several ways.
MaxCandidateScenes == 13

CandidateDurations == {10, 20, 25, 30, 40, 50, 60, 70}

CandidatePrompts == {"nine char", "ten chars!"}

CandidateNarrations == {"", "n"}

Numberings == {"from1", "from0", "from2", "gaps", "repeat", "descending"}

Number(numbering, i, n) ==
    CASE numbering = "from1" -> i
      [] numbering = "from0" -> i - 1
      [] numbering = "from2" -> i + 1
      [] numbering = "gaps" -> 2 * i - 1
      [] numbering = "repeat" -> IF i = 1 THEN 1 ELSE i - 1
      [] OTHER -> n + 1 - i

CandidateScript(n, d, last_d, numbering, prompt, narration) ==
    [title |-> "title", topic |-> "topic",
     scenes |-> [i \in 1..n |->
        [scene_number |-> Number(numbering, i, n),
         video_prompt |-> IF i = n THEN prompt ELSE "video prompt " \o Fmt02(i),
         narration_text |-> IF i = n THEN narration ELSE "narration " \o Fmt02(i),
         duration_seconds |-> IF i = n THEN last_d ELSE d]],
     style_notes |-> "cinematic",
     negative_prompt |-> "blurry, low quality, distorted, watermark, text overlay"]

Candidates ==
    {CandidateScript(n, d, last_d, numbering, prompt, narration) :
        n \in (MinScenes - 1)..MaxCandidateScenes,
        d \in CandidateDurations, last_d \in CandidateDurations,
        numbering \in Numberings,
        prompt \in CandidatePrompts, narration \in CandidateNarrations}

----------------------------------------------------------------------------
\* The scripts a provider returns: whatever VideoScript accepts, so the
\* scenes are numbered 1..n in list order or, as nothing checks the order of
\* scene_number, in another order.
ProviderNumberings == {"from1", "descending"}

ProviderScript(n, numbering) ==
    [MkScript(n) EXCEPT !.scenes =
        [i \in 1..n |-> [Scene(i) EXCEPT !.scene_number = Number(numbering, i, n)]]]

\* run_pipeline is entered
PipelineInit ==
    /\ skip_video \in BOOLEAN
    /\ reference_voice \in ReferenceVoices
    /\ pc = "script"
    /\ script = NoScript
    /\ disk = <<>>
    /\ tts_results = <<>>
    /\ clip_paths = <<>>
    /\ scene_idx = 0
    /\ pipe = None
    /\ clips_with_audio = <<>>
    /\ log = <<>>
    /\ outcome = NoOutcome

\* no VideoScript is being constructed
NotConstructed == [ok |-> FALSE, error |-> "not constructed"]

NoValidation ==
    /\ candidate = NoScript
    /\ constructed = NotConstructed
    /\ reloaded = NotLoaded

\* no segment is being prepared
NoClipInfo == [video_path |-> None]

NoSegment == [operation |-> "not prepared"]

NoPreparation == clip_info = NoClipInfo /\ segment = NoSegment

NoOllama == [state |-> "idle"]

NoComposition == [phase |-> "idle"]

NoCli == [state |-> "idle"]

\* no component is being called on its own
NoComponents == ollama = NoOllama /\ composition = NoComposition /\ cli = NoCli

NoResume == [state |-> "idle", value |-> None, entries |-> <<>>, composed |-> FALSE]

Init ==
    /\ PipelineInit
    /\ NoComponents
    /\ resume = NoResume
    /\ NoValidation
    /\ NoPreparation

\* SaveScript with the write left out
SaveScript_skipped(d, s) == d

\* json.dumps(script.model_dump(), indent=2) into output_dir / "script.json"
SaveScript(d, s) == WriteFile(d, ScriptPath, [json |-> JsonDumps(ModelDump(s))])

\* Stage 1: generate_script(topic), then the script is written to disk.
GenerateScript ==
    /\ pc = "script"
    /\ \E n \in MinScenes..MaxScenes, numbering \in ProviderNumberings,
          result \in {"ok", "error"} :
         IF result = "ok"
         THEN /\ script' = ProviderScript(n, numbering)
              /\ disk' = SaveScript(disk, ProviderScript(n, numbering))
              /\ log' = log \o <<Call("generate", 0, <<"topic">>, "ok")>>
              /\ pc' = "narration"
              /\ UNCHANGED outcome
         ELSE /\ log' = log \o <<Call("generate", 0, <<"topic">>, "error")>>
              /\ pc' = "raised"
              /\ outcome' = Raised("ScriptError")
              /\ UNCHANGED <<script, disk>>
    /\ UNCHANGED <<resume, validation, preparation, components>>
    /\ UNCHANGED <<skip_video, reference_voice, tts_results, clip_paths,
                   scene_idx, pipe, clips_with_audio>>

----------------------------------------------------------------------------
(* Stage 2: TTS narration *)

\* _get_wav_duration: the duration measured from the WAV file written for
\* the scene, which run_pipeline only passes on.  In the default voice each
\* narration has a length of its own, none the 5.0 s the script asks for;
\* in the cloned voice each lasts exactly as long as the script asks.
MeasuredDuration(scene, voice) ==
    IF voice = None THEN 28 + 4 * scene.scene_number ELSE scene.duration_seconds

\* the TTSResult tts.synthesize returns
TTSResult(audio_path, duration) ==
    [audio_path |-> audio_path, duration_seconds |-> duration]

\* NarrationLoopDone with the loop left after its first scene
NarrationLoopDone_first == Len(tts_results) >= 1

\* the for loop over script.scenes of stage 2 has run to its end
NarrationLoopDone == Len(tts_results) = Len(script.scenes)

\* SynthesizeNext with the error swallowed and the scene tried again
SynthesizeNext_retry(result) == "narration"

\* tts.synthesize is called outside any try block: an error leaves run_pipeline
SynthesizeNext(result) == IF result = "ok" THEN "narration" ELSE "raised"

Synthesize ==
    /\ pc = "narration"
    /\ ~NarrationLoopDone
    /\ LET scene == script.scenes[Len(tts_results) + 1]
           audio_path == AudioPath(scene.scene_number)
           args == <<scene.narration_text, audio_path, reference_voice>>
           d == MeasuredDuration(scene, reference_voice)
       IN  \/ /\ tts_results' = Append(tts_results, TTSResult(audio_path, d))
              /\ disk' = WriteFile(disk, audio_path,
                                   [wav |-> scene.narration_text, duration |-> d])
              /\ log' = log \o <<Call("synthesize", scene.scene_number, args, "ok")>>
              /\ pc' = SynthesizeNext("ok")
              /\ UNCHANGED outcome
           \/ /\ log' = log \o <<Call("synthesize", scene.scene_number, args, "error")>>
              /\ pc' = SynthesizeNext("error")
              /\ outcome' = IF pc' = "raised" THEN Raised("SynthesisError") ELSE outcome
              /\ UNCHANGED <<tts_results, disk>>
    /\ UNCHANGED <<resume, validation, preparation, components>>
    /\ UNCHANGED <<skip_video, reference_voice, script, clip_paths, scene_idx,
                   pipe, clips_with_audio>>

----------------------------------------------------------------------------
(* Stage 3: video generation *)

\* WanVideoGenerator.load_model, entered with _pipe = p: a no-op when a
\* pipeline is assigned; else it builds one.  "error" is a failure of
\* from_pretrained (lines 43-53, _pipe still None), "error_to" a failure of
\* the move to the device (lines 55-70, _pipe already assigned).
LoadOutcomes(p) == IF p # None THEN {"noop"} ELSE {"ok", "error", "error_to"}

WanLoadModel(p, load_result) ==
    CASE p # None -> p
      [] load_result = "ok" -> "loaded"
      [] load_result = "error_to" -> "unplaced"
      [] OTHER -> None

\* WanUnloadModel that keeps the pipeline
WanUnloadModel_keeps(p) == p

\* WanVideoGenerator.unload_model
WanUnloadModel(p) == IF p # None THEN None ELSE p

\* outcomes of the inference and export of generate_clip, which run only
\* when load_model did not raise: the clip, an Exception, or a BaseException
\* that is no Exception (KeyboardInterrupt, SystemExit)
RunOutcomes(load_result) ==
    IF load_result \in {"noop", "ok"} THEN {"ok", "error", "abort"} ELSE {"not_run"}

\* WanVideoGenerator.generate_clip, entered with _pipe = p.  It calls
\* load_model itself when no pipeline is loaded, then runs the pipeline and
\* exports the frames to output_path.
GenerateClipCall(p, d, scene, load_result, run_result) ==
    LET output_path == ClipPath(scene.scene_number)
        args == <<FullPrompt(script, scene), script.negative_prompt, output_path>>
        result == IF run_result = "not_run" THEN "error" ELSE run_result
    IN  [pipe |-> WanLoadModel(p, load_result),
         result |-> result,
         disk |-> IF result = "ok"
                  THEN WriteFile(d, output_path, [mp4 |-> args[1]])
                  ELSE d,
         calls |-> <<Call("generate_clip", scene.scene_number, args, result)>>
                   \o (IF p = None
                       THEN <<Call("load_model", scene.scene_number, <<>>, load_result)>>
                       ELSE <<>>)]

\* the for loop over script.scenes of stage 3 has run to its end
ClipLoopDone == scene_idx > Len(script.scenes)

\* EnterClips with the test of skip_video left out
EnterClips_always ==
    /\ pc = "narration"
    /\ NarrationLoopDone
    /\ clip_paths' = <<>>
    /\ pipe' = None
    /\ scene_idx' = 1
    /\ pc' = "clips"
    /\ UNCHANGED <<resume, validation, preparation, components>>
    /\ UNCHANGED <<skip_video, reference_voice, script, disk, tts_results,
                   clips_with_audio, log, outcome>>

\* lines 125-131: clip_paths = [] and, unless skip_video, WanVideoGenerator()
EnterClips ==
    /\ pc = "narration"
    /\ NarrationLoopDone
    /\ ~skip_video
    /\ clip_paths' = <<>>
    /\ pipe' = None
    /\ scene_idx' = 1
    /\ pc' = "clips"
    /\ UNCHANGED <<resume, validation, preparation, components>>
    /\ UNCHANGED <<skip_video, reference_voice, script, disk, tts_results,
                   clips_with_audio, log, outcome>>

\* the else branch of "if not skip_video"
SkipClips ==
    /\ pc = "narration"
    /\ NarrationLoopDone
    /\ skip_video
    /\ clip_paths' = <<>>
    /\ pc' = "compose"
    /\ UNCHANGED <<resume, validation, preparation, components>>
    /\ UNCHANGED <<skip_video, reference_voice, script, disk, tts_results,
                   scene_idx, pipe, clips_with_audio, log, outcome>>

\* what the first try block does with the result of generate_clip
AfterFirstAttempt(result) ==
    CASE result = "ok" -> "append"
      [] result = "error" -> "retry"
      [] OTHER -> "raise"

\* AfterRetry with a failed retry retried again
AfterRetry_again(result) ==
    CASE result = "ok" -> "append"
      [] result = "error" -> "retry"
      [] OTHER -> "raise"

\* AfterRetry with the clip path recorded whether or not the retry succeeded
AfterRetry_append(result) ==
    CASE result \in {"ok", "error"} -> "append"
      [] OTHER -> "raise"

\* what the nested try block (retry once) does with the result of generate_clip
AfterRetry(result) ==
    CASE result = "ok" -> "append"
      [] result = "error" -> "skip"
      [] OTHER -> "raise"

\* the effect of one attempt on the loop, given what the try block decided
Attempt(decision, r) ==
    /\ pipe' = r.pipe
    /\ disk' = r.disk
    /\ log' = log \o r.calls
    /\ clip_paths' = IF decision = "append"
                     THEN Append(clip_paths, r.calls[1].args[3])
                     ELSE clip_paths
    /\ scene_idx' = IF decision \in {"append", "skip"} THEN scene_idx + 1 ELSE scene_idx
    /\ pc' = CASE decision = "retry" -> "retry"
               [] decision = "raise" -> "raised"
               [] OTHER -> "clips"
    /\ outcome' = IF decision = "raise" THEN Raised("KeyboardInterrupt") ELSE outcome
    /\ UNCHANGED <<resume, validation, preparation, components>>
    /\ UNCHANGED <<skip_video, reference_voice, script, tts_results,
                   clips_with_audio>>

\* lines 139-160: the first generate_clip call for the scene
GenerateClip ==
    /\ pc = "clips"
    /\ ~ClipLoopDone
    /\ \E load_result \in LoadOutcomes(pipe) :
         \E run_result \in RunOutcomes(load_result) :
            LET r == GenerateClipCall(pipe, disk, script.scenes[scene_idx],
                                      load_result, run_result)
            IN  Attempt(AfterFirstAttempt(r.result), r)

\* lines 161-178: the retry, with the same arguments
RetryClip ==
    /\ pc = "retry"
    /\ \E load_result \in LoadOutcomes(pipe) :
         \E run_result \in RunOutcomes(load_result) :
            LET r == GenerateClipCall(pipe, disk, script.scenes[scene_idx],
                                      load_result, run_result)
            IN  Attempt(AfterRetry(r.result), r)

\* UnloadModel with the call to unload_model left out
UnloadModel_missing ==
    /\ pc = "clips"
    /\ ClipLoopDone
    /\ pc' = "compose"
    /\ UNCHANGED <<resume, validation, preparation, components>>
    /\ UNCHANGED <<skip_video, reference_voice, script, disk, tts_results,
                   clip_paths, scene_idx, pipe, clips_with_audio, log,
                   outcome>>

\* line 180: video_gen.unload_model() after the loop
UnloadModel ==
    /\ pc = "clips"
    /\ ClipLoopDone
    /\ pipe' = WanUnloadModel(pipe)
    /\ log' = log \o <<Call("unload_model", 0, <<>>, "ok")>>
    /\ pc' = "compose"
    /\ UNCHANGED <<resume, validation, preparation, components>>
    /\ UNCHANGED <<skip_video, reference_voice, script, disk, tts_results,
                   clip_paths, scene_idx, clips_with_audio, outcome>>

----------------------------------------------------------------------------
(* Stage 4: composition *)

\* ShouldCompose with the test left out
ShouldCompose_always(paths) == TRUE

\* "if clip_paths:"
ShouldCompose(paths) == paths # <<>>

\* ClipsWithAudio that pairs the clips with the last narrations
ClipsWithAudio_fromLast(paths, results) ==
    [i \in 1..Len(paths) |->
        [video_path |-> paths[i],
         audio_path |-> results[Len(results) - Len(paths) + i].audio_path,
         target_duration |-> results[Len(results) - Len(paths) + i].duration_seconds]]

\* lines 188-200: the i-th clip is paired with tts_results[i]
ClipsWithAudio(paths, results) ==
    [i \in 1..Len(paths) |->
        [video_path |-> paths[i],
         audio_path |-> IF i <= Len(results) THEN results[i].audio_path ELSE None,
         target_duration |-> IF i <= Len(results)
                             THEN results[i].duration_seconds ELSE None]]

\* lines 185-216: build the entries, compose them into final.mp4
Compose ==
    /\ pc = "compose"
    /\ ShouldCompose(clip_paths)
    /\ clips_with_audio' = ClipsWithAudio(clip_paths, tts_results)
    /\ \/ /\ disk' = WriteFile(disk, FinalPath, [segments |-> clips_with_audio'])
          /\ log' = log \o <<Call("compose", 0, <<clips_with_audio', FinalPath>>, "ok")>>
          /\ pc' = "done"
          /\ outcome' = Returned(FinalPath)
       \/ /\ log' = log \o <<Call("compose", 0, <<clips_with_audio', FinalPath>>, "error")>>
          /\ pc' = "raised"
          /\ outcome' = Raised("CompositionError")
          /\ UNCHANGED disk
    /\ UNCHANGED <<resume, validation, preparation, components>>
    /\ UNCHANGED <<skip_video, reference_voice, script, tts_results,
                   clip_paths, scene_idx, pipe>>

\* lines 217-219: no clips, the run returns the path of script.json
ReturnScript ==
    /\ pc = "compose"
    /\ ~ShouldCompose(clip_paths)
    /\ pc' = "done"
    /\ outcome' = Returned(ScriptPath)
    /\ UNCHANGED <<resume, validation, preparation, components>>
    /\ UNCHANGED <<skip_video, reference_voice, script, disk, tts_results,
                   clip_paths, scene_idx, pipe, clips_with_audio, log>>

----------------------------------------------------------------------------
(* compose_from_directory, invoked on the directory a run has left *)

\* sorted(...): the globbed names differ in their two digits only, so their
\* order as paths is the order of their numbers
RECURSIVE Ascending(_)
Ascending(numbers) ==
    IF numbers = {} THEN <<>>
    ELSE LET least == CHOOSE n \in numbers : \A k \in numbers : n <= k
         IN  <<least>> \o Ascending(numbers \ {least})

\* line 238: sorted(project_dir.glob("scene_*_clip.mp4"))
SortedClips(d) ==
    LET numbers == Ascending({n \in 1..MaxScenes : ClipPath(n) \in DOMAIN d})
    IN  [i \in 1..Len(numbers) |-> ClipPath(numbers[i])]

\* line 239: sorted(project_dir.glob("scene_*_audio.wav"))
SortedAudios(d) ==
    LET numbers == Ascending({n \in 1..MaxScenes : AudioPath(n) \in DOMAIN d})
    IN  [i \in 1..Len(numbers) |-> AudioPath(numbers[i])]

\* lines 233-234: script_path.exists()
ScriptFound(d) == ScriptPath \in DOMAIN d

\* ClipsFound that takes an empty list of clips for clips
ClipsFound_always(clips) == TRUE

\* lines 241-242: "if not clips" raises
ClipsFound(clips) == clips # <<>>

\* lines 244-255: the i-th clip is paired with the i-th audio file and the
\* duration_seconds of the i-th scene of the script
ResumeEntries(clips, audios, s) ==
    [i \in 1..Len(clips) |->
        [video_path |-> clips[i],
         audio_path |-> IF i <= Len(audios) THEN audios[i] ELSE None,
         target_duration |-> IF i <= Len(s.scenes)
                             THEN s.scenes[i].duration_seconds ELSE None]]

Resumed(state, value, entries, composed) ==
    [state |-> state, value |-> value, entries |-> entries, composed |-> composed]

\* lines 222-262
ComposeFromDirectory ==
    /\ pc \in {"done", "raised"}
    /\ resume = NoResume
    /\ IF ~ScriptFound(disk)
       THEN /\ resume' = Resumed("raised", "FileNotFoundError: script.json", <<>>, FALSE)
            /\ UNCHANGED disk
       ELSE LET loaded == ModelValidateJson(disk[ScriptPath].json)
                clips == SortedClips(disk)
                audios == SortedAudios(disk)
                entries == ResumeEntries(clips, audios, loaded.script)
            IN  IF ~loaded.ok
                THEN /\ resume' = Resumed("raised", "ValidationError", <<>>, FALSE)
                     /\ UNCHANGED disk
                ELSE IF ~ClipsFound(clips)
                THEN /\ resume' = Resumed("raised", "FileNotFoundError: clips", <<>>, FALSE)
                     /\ UNCHANGED disk
                ELSE \/ /\ disk' = WriteFile(disk, FinalPath, [segments |-> entries])
                        /\ resume' = Resumed("returned", FinalPath, entries, TRUE)
                     \/ /\ resume' = Resumed("raised", "CompositionError", entries, TRUE)
                        /\ UNCHANGED disk
    /\ UNCHANGED <<skip_video, reference_voice, pc, script, tts_results, clip_paths,
                   scene_idx, pipe, clips_with_audio, log, outcome>>
    /\ UNCHANGED <<validation, preparation, components>>

----------------------------------------------------------------------------
Next ==
    \/ GenerateScript
    \/ Synthesize
    \/ EnterClips
    \/ SkipClips
    \/ GenerateClip
    \/ RetryClip
    \/ UnloadModel
    \/ Compose
    \/ ReturnScript
    \/ ComposeFromDirectory

Spec == Init /\ [][Next]_vars

----------------------------------------------------------------------------
(* A VideoScript is constructed from given data *)

\* run_pipeline entered with its defaults and not yet run
PipelineIdle == PipelineInit /\ ~skip_video /\ reference_voice = None

InitScript ==
    /\ PipelineIdle
    /\ NoComponents
    /\ resume = NoResume
    /\ candidate \in Candidates
    /\ constructed = NotConstructed
    /\ reloaded = NotLoaded
    /\ NoPreparation

ConstructScript ==
    /\ constructed = NotConstructed
    /\ constructed' = VideoScriptConstruct(candidate)
    /\ UNCHANGED <<pipeline, resume, candidate, reloaded, preparation, components>>

\* an accepted script is persisted as run_pipeline does (lines 88-89) and
\* loaded again as compose_from_directory does (line 236)
ReloadScript ==
    /\ constructed.ok
    /\ reloaded = NotLoaded
    /\ reloaded' = ModelValidateJson(JsonDumps(ModelDump(candidate)))
    /\ UNCHANGED <<pipeline, resume, candidate, constructed, preparation, components>>

NextScript == ConstructScript \/ ReloadScript

SpecScript == InitScript /\ [][NextScript]_vars

----------------------------------------------------------------------------
(* One WanVideoGenerator under any sequence of calls (video/wan.py) *)

\* the number of calls made on the generator
MaxWanCalls == 4

\* a call on the generator: _pipe before and after it, its result, the
\* result of the load_model it made and whether the pipeline was run
WanCall(op, before, after, result, load_result, ran) ==
    [op |-> op, before |-> before, after |-> after, result |-> result,
     load_result |-> load_result, ran |-> ran]

\* WanVideoGenerator() has been constructed for the scenes of a script
InitWan ==
    /\ skip_video = FALSE
    /\ reference_voice = None
    /\ pc = "clips"
    /\ script = MkScript(MinScenes)
    /\ disk = <<>>
    /\ tts_results = <<>>
    /\ clip_paths = <<>>
    /\ scene_idx = 1
    /\ pipe = None
    /\ clips_with_audio = <<>>
    /\ log = <<>>
    /\ outcome = NoOutcome
    /\ resume = NoResume
    /\ NoValidation
    /\ NoPreparation
    /\ NoComponents

\* load_model()
WanLoad ==
    /\ Len(log) < MaxWanCalls
    /\ \E load_result \in LoadOutcomes(pipe) :
         /\ pipe' = WanLoadModel(pipe, load_result)
         /\ log' = Append(log, WanCall("load_model", pipe, pipe',
                                       IF load_result \in {"noop", "ok"}
                                       THEN "ok" ELSE "error",
                                       load_result, FALSE))
    /\ UNCHANGED <<skip_video, reference_voice, pc, script, disk, tts_results,
                   clip_paths, scene_idx, clips_with_audio, outcome>>
    /\ UNCHANGED <<resume, validation, preparation, components>>

\* generate_clip(prompt, negative_prompt, output_path) for a scene of the script
WanGenerate ==
    /\ Len(log) < MaxWanCalls
    /\ \E k \in 1..Len(script.scenes), load_result \in LoadOutcomes(pipe) :
       \E run_result \in RunOutcomes(load_result) :
         LET c == GenerateClipCall(pipe, disk, script.scenes[k], load_result, run_result)
         IN  /\ pipe' = c.pipe
             /\ disk' = c.disk
             /\ log' = Append(log, WanCall("generate_clip", pipe, c.pipe, c.result,
                                           load_result, run_result # "not_run"))
    /\ UNCHANGED <<skip_video, reference_voice, pc, script, tts_results,
                   clip_paths, scene_idx, clips_with_audio, outcome>>
    /\ UNCHANGED <<resume, validation, preparation, components>>

\* unload_model()
WanUnload ==
    /\ Len(log) < MaxWanCalls
    /\ pipe' = WanUnloadModel(pipe)
    /\ log' = Append(log, WanCall("unload_model", pipe, pipe', "ok", "noop", FALSE))
    /\ UNCHANGED <<skip_video, reference_voice, pc, script, disk, tts_results,
                   clip_paths, scene_idx, clips_with_audio, outcome>>
    /\ UNCHANGED <<resume, validation, preparation, components>>

NextWan == WanLoad \/ WanGenerate \/ WanUnload

SpecWan == InitWan /\ [][NextWan]_vars

----------------------------------------------------------------------------
(* OllamaScriptGenerator.generate (script/ollama.py) *)

MAX_RETRIES == 3

\* a response that is no JSON document
Malformed == [malformed |-> "no json"]

\* the scripts the model answers with: two that VideoScript accepts, one
\* whose total duration is too short, one with too few scenes
OllamaScripts ==
    {CandidateScript(MinScenes, 50, 50, "from1", "ten chars!", "n"),
     CandidateScript(MinScenes + 1, 50, 40, "descending", "ten chars!", "n"),
     CandidateScript(MinScenes, 20, 20, "from1", "ten chars!", "n"),
     CandidateScript(MinScenes - 1, 50, 50, "from1", "ten chars!", "n")}

\* response.message.content of a chat request that succeeded
OllamaContents == {JsonDumps(ModelDump(s)) : s \in OllamaScripts} \cup {Malformed}

\* _call_ollama raising: the model is missing (404), another ResponseError,
\* no connection
OllamaCallErrors ==
    {"RuntimeError: model not found", "ResponseError", "RuntimeError: cannot connect"}

\* line 57: VideoScript.model_validate_json(content); a text that is no JSON
\* is a ValidationError as well
ValidateContent(content) ==
    IF content = Malformed
    THEN [ok |-> FALSE, error |-> "json invalid", script |-> NoScript]
    ELSE ModelValidateJson(content)

\* OllamaMayCall that allows one attempt more
OllamaMayCall_extra(calls) == calls + 1 <= MAX_RETRIES + 1

\* line 54: for attempt in range(1, MAX_RETRIES + 1)
OllamaMayCall(calls) == calls + 1 <= MAX_RETRIES

Ollama(state, calls, contents, result, error) ==
    [state |-> state, calls |-> calls, contents |-> contents,
     result |-> result, error |-> error]

InitOllama ==
    /\ PipelineIdle
    /\ resume = NoResume
    /\ NoValidation
    /\ NoPreparation
    /\ ollama = Ollama("running", 0, <<>>, NoScript, None)
    /\ composition = NoComposition
    /\ cli = NoCli

\* lines 54-61: one pass of the loop
OllamaAttempt ==
    /\ ollama.state = "running"
    /\ OllamaMayCall(ollama.calls)
    /\ \/ \E err \in OllamaCallErrors :
            ollama' = Ollama("raised", ollama.calls + 1, ollama.contents, NoScript, err)
       \/ \E content \in OllamaContents :
            LET v == ValidateContent(content)
                contents == Append(ollama.contents, content)
            IN  ollama' = IF v.ok
                          THEN Ollama("returned", ollama.calls + 1, contents, v.script, None)
                          ELSE Ollama("running", ollama.calls + 1, contents, NoScript, v.error)
    /\ UNCHANGED <<pipeline, resume, validation, preparation, composition, cli>>

\* lines 63-66: the loop is over without a return
OllamaGiveUp ==
    /\ ollama.state = "running"
    /\ ~OllamaMayCall(ollama.calls)
    /\ ollama' = Ollama("raised", ollama.calls, ollama.contents, NoScript,
                        "RuntimeError: Ollama failed after attempts")
    /\ UNCHANGED <<pipeline, resume, validation, preparation, composition, cli>>

NextOllama == OllamaAttempt \/ OllamaGiveUp

SpecOllama == InitOllama /\ [][NextOllama]_vars

----------------------------------------------------------------------------
(* Compositor._prepare_segment (compose/compositor.py) *)

\* the output resolution
TARGET_WIDTH == 1080

TARGET_HEIGHT == 1920

\* the resolution of a generated clip, WanVideoGenerator.WIDTH and HEIGHT
WIDTH == 480

HEIGHT == 832

\* line 97: a video longer than the audio by more than 0.5 s is trimmed
Tolerance == 5

\* line 98: to the audio duration plus 0.3 s
Overshoot == 3

\* ClipWithAudio.target_duration defaults to None; line 101 is the one place
\* that reads it and takes None and 0.0 alike as "not given"
NoTarget == 0

\* the longest clip or narration of a prepared segment, in tenths of a second
MaxSegmentDuration == 80

Sizes == {<<WIDTH, HEIGHT>>, <<TARGET_WIDTH, TARGET_HEIGHT>>}

TargetDurations == {NoTarget, 30, 50}

\* A ClipWithAudio together with what the files at its paths hold: the
\* clip's duration and size, whether the audio file exists and its duration.
ClipInfo(v, size, path, exists, a, target) ==
    [video_path |-> ClipPath(1), video_duration |-> v, size |-> size,
     audio_path |-> path, audio_exists |-> exists, audio_duration |-> a,
     target_duration |-> target]

ClipInfos ==
    {ClipInfo(v, size, AudioPath(1), TRUE, a, target) :
        v \in 1..MaxSegmentDuration, size \in Sizes,
        a \in 1..MaxSegmentDuration, target \in TargetDurations}
    \cup
    {ClipInfo(v, size, path, FALSE, 0, target) :
        v \in 1..MaxSegmentDuration, size \in Sizes,
        path \in {None, AudioPath(1)}, target \in TargetDurations}

\* lines 85-86
Resized(size) ==
    IF size[1] # TARGET_WIDTH \/ size[2] # TARGET_HEIGHT
    THEN <<TARGET_WIDTH, TARGET_HEIGHT>> ELSE size

\* line 89: clip_info.audio_path and clip_info.audio_path.exists()
HasAudio(info) == info.audio_path # None /\ info.audio_exists

\* NeedsStretch that stretches only beyond the tolerance
NeedsStretch_beyondTolerance(v, a) == v < a - Tolerance

\* line 93
NeedsStretch(v, a) == v < a

\* SpeedFactor turned upside down
SpeedFactor_inverted(v, a) == <<a, v>>

\* line 94: video.duration / audio.duration, as numerator and denominator
SpeedFactor(v, a) == <<v, a>>

\* WithSpeedScaled that multiplies the duration by the factor
WithSpeedScaled_multiplied(duration, factor) == (duration * factor[1]) \div factor[2]

\* VideoClip.with_speed_scaled(factor): the new duration is duration / factor
WithSpeedScaled(duration, factor) == (duration * factor[2]) \div factor[1]

\* NeedsTrim that also trims at the tolerance itself
NeedsTrim_inclusive(v, a) == v >= a + Tolerance

\* line 97
NeedsTrim(v, a) == v > a + Tolerance

\* VideoClip.subclipped(start, end): the new duration is end - start
Subclipped(start, end) == end - start

\* line 101: elif clip_info.target_duration
TargetGiven(info) == info.target_duration # NoTarget

\* NeedsTargetTrim that cuts to the target whenever the durations differ
NeedsTargetTrim_differs(v, target) == v # target

\* line 103
NeedsTargetTrim(v, target) == v > target

Segment(duration, operation, factor, audio, size) ==
    [duration |-> duration, operation |-> operation, factor |-> factor,
     audio |-> audio, size |-> size]

\* lines 80-106
PreparedSegment(info) ==
    LET v == info.video_duration
        a == info.audio_duration
        size == Resized(info.size)
    IN  IF HasAudio(info)
        THEN IF NeedsStretch(v, a)
             THEN Segment(WithSpeedScaled(v, SpeedFactor(v, a)), "with_speed_scaled",
                          SpeedFactor(v, a), info.audio_path, size)
             ELSE IF NeedsTrim(v, a)
             THEN Segment(Subclipped(0, a + Overshoot), "subclipped",
                          <<1, 1>>, info.audio_path, size)
             ELSE Segment(v, "none", <<1, 1>>, info.audio_path, size)
        ELSE IF TargetGiven(info) /\ NeedsTargetTrim(v, info.target_duration)
             THEN Segment(Subclipped(0, info.target_duration), "subclipped",
                          <<1, 1>>, None, size)
             ELSE Segment(v, "none", <<1, 1>>, None, size)

InitSegment ==
    /\ PipelineIdle
    /\ NoComponents
    /\ resume = NoResume
    /\ NoValidation
    /\ clip_info \in ClipInfos
    /\ segment = NoSegment

PrepareSegment ==
    /\ segment = NoSegment
    /\ segment' = PreparedSegment(clip_info)
    /\ UNCHANGED <<pipeline, resume, validation, clip_info, components>>

NextSegment == PrepareSegment

SpecSegment == InitSegment /\ [][NextSegment]_vars

----------------------------------------------------------------------------
(* Compositor.compose (compose/compositor.py) *)

\* the number of entries handed to compose
MaxComposeClips == 3

\* Compositor(crossfade_duration): the default 0.3 s, none, and 0.5 s
CrossfadeDurations == {0, 3, 5}

\* the entries: a clip shorter than its narration, one longer than it, and
\* one without audio that is cut to its target
ComposeInputs ==
    {ClipInfo(40, <<WIDTH, HEIGHT>>, AudioPath(1), TRUE, 60, 60),
     ClipInfo(80, <<WIDTH, HEIGHT>>, AudioPath(1), TRUE, 50, 50),
     ClipInfo(54, <<WIDTH, HEIGHT>>, None, FALSE, 0, 50)}

\* the files _prepare_segment has opened for the i-th entry once it returns:
\* the VideoFileClip and, with audio, the AudioFileClip
SegmentHandles(i, info) ==
    {<<"video", i>>} \cup (IF HasAudio(info) THEN {<<"audio", i>>} ELSE {})

\* lines 54-61: padding=-self.crossfade_duration, or no padding
Padding(crossfade_duration, n) ==
    IF crossfade_duration > 0 /\ n > 1 THEN 0 - crossfade_duration ELSE 0

RECURSIVE SegmentsDuration(_)
SegmentsDuration(segments) ==
    IF segments = <<>> THEN 0
    ELSE Head(segments).duration + SegmentsDuration(Tail(segments))

\* ConcatenatedDuration that applies the padding once per clip
ConcatenatedDuration_everyClip(segments, padding) ==
    SegmentsDuration(segments) + padding * Len(segments)

\* concatenate_videoclips: each clip starts where the one before it ends,
\* moved by the padding; the whole ends with the last clip
ConcatenatedDuration(segments, padding) ==
    SegmentsDuration(segments) + padding * (Len(segments) - 1)

ConcatenateVideoclips(segments, padding) ==
    [segments |-> segments,
     padding |-> padding,
     starts |-> [i \in 1..Len(segments) |->
                    SegmentsDuration(SubSeq(segments, 1, i - 1)) + padding * (i - 1)],
     duration |-> ConcatenatedDuration(segments, padding)]

NoFinal == [segments |-> <<>>, padding |-> 0, starts |-> <<>>, duration |-> 0]

Composition(phase, clips, crossfade_duration, video_segments, open, final) ==
    [phase |-> phase, clips |-> clips, crossfade_duration |-> crossfade_duration,
     video_segments |-> video_segments, open |-> open, final |-> final]

InitCompose ==
    /\ PipelineIdle
    /\ resume = NoResume
    /\ NoValidation
    /\ NoPreparation
    /\ ollama = NoOllama
    /\ cli = NoCli
    /\ \E n \in 1..MaxComposeClips :
       \E clips \in [1..n -> ComposeInputs], crossfade_duration \in CrossfadeDurations :
          composition = Composition("prepare", clips, crossfade_duration, <<>>, {}, NoFinal)

\* lines 50-52: one pass of the loop.  _prepare_segment returns the segment,
\* or raises when the clip cannot be read (nothing opened), or raises when
\* the audio cannot be read (the clip already opened)
ComposePrepare ==
    /\ composition.phase = "prepare"
    /\ Len(composition.video_segments) < Len(composition.clips)
    /\ LET i == Len(composition.video_segments) + 1
           info == composition.clips[i]
       IN  \/ composition' = [composition EXCEPT
                  !.video_segments = Append(@, PreparedSegment(info)),
                  !.open = @ \cup SegmentHandles(i, info)]
           \/ composition' = [composition EXCEPT !.phase = "raised"]
           \/ /\ HasAudio(info)
              /\ composition' = [composition EXCEPT
                    !.phase = "raised", !.open = @ \cup {<<"video", i>>}]
    /\ UNCHANGED <<pipeline, resume, validation, preparation, ollama, cli>>

\* lines 54-71: the segments are joined and the result is written
ComposeRender ==
    /\ composition.phase = "prepare"
    /\ Len(composition.video_segments) = Len(composition.clips)
    /\ LET final == ConcatenateVideoclips(
                        composition.video_segments,
                        Padding(composition.crossfade_duration,
                                Len(composition.video_segments)))
       IN  \/ composition' = [composition EXCEPT
                  !.phase = "close", !.final = final,
                  !.open = @ \cup {<<"final", 0>>}]
           \/ composition' = [composition EXCEPT
                  !.phase = "raised", !.final = final,
                  !.open = @ \cup {<<"final", 0>>}]
    /\ UNCHANGED <<pipeline, resume, validation, preparation, ollama, cli>>

\* lines 73-78: seg.close() for every segment, final.close(), return
ComposeClose ==
    /\ composition.phase = "close"
    /\ composition' = [composition EXCEPT
          !.phase = "returned",
          !.open = (@ \ UNION {SegmentHandles(i, composition.clips[i]) :
                                  i \in 1..Len(composition.video_segments)})
                   \ {<<"final", 0>>}]
    /\ UNCHANGED <<pipeline, resume, validation, preparation, ollama, cli>>

NextCompose == ComposePrepare \/ ComposeRender \/ ComposeClose

SpecCompose == InitCompose /\ [][NextCompose]_vars

----------------------------------------------------------------------------
(* The create and script commands (cli.py) *)

Topics == {"cats", "space", "coffee"}

\* --engine: "ollama" by default, or "claude"
Engines == {"ollama", "claude"}

\* def run_pipeline(topic, output_dir, reference_voice, skip_video)
RunPipelineParameters == {"topic", "output_dir", "reference_voice", "skip_video"}

\* def generate_script(topic)
GenerateScriptParameters == {"topic"}

\* the arguments create passes to run_pipeline, all by keyword
CreateKeywords == {"topic", "output_dir", "reference_voice", "skip_video", "engine"}

\* the arguments script passes to generate_script: topic, and engine=engine
ScriptKeywords == {"topic", "engine"}

\* a Python call binds when every argument names a parameter; otherwise it
\* raises TypeError before the body of the function runs
CallBinds(parameters, keywords) == keywords \subseteq parameters

\* generate_script builds ClaudeScriptGenerator() whatever it is called with
GenerateScriptProvider == "claude"

Invocation(command, args) ==
    [state |-> "invoked", command |-> command, args |-> args,
     error |-> None, provider |-> None]

CreateInvocations ==
    {Invocation("create", [topic |-> topic, output_dir |-> output_dir,
                           reference_voice |-> voice, skip_video |-> skip,
                           engine |-> engine]) :
        topic \in Topics, output_dir \in {None, "out"}, voice \in ReferenceVoices,
        skip \in BOOLEAN, engine \in Engines}

ScriptInvocations ==
    {Invocation("script", [topic |-> topic, output |-> output, engine |-> engine]) :
        topic \in Topics, output \in {None, "script.json"}, engine \in Engines}

InitCli ==
    /\ PipelineIdle
    /\ resume = NoResume
    /\ NoValidation
    /\ NoPreparation
    /\ ollama = NoOllama
    /\ composition = NoComposition
    /\ cli \in CreateInvocations \cup ScriptInvocations

\* the function the command calls is entered, with the provider it builds,
\* or the call raises
Called(invocation, parameters, keywords) ==
    IF CallBinds(parameters, keywords)
    THEN [invocation EXCEPT !.state = "entered", !.provider = GenerateScriptProvider]
    ELSE [invocation EXCEPT !.state = "raised", !.error = "TypeError"]

\* cli.py lines 46-61: create calls run_pipeline
CliCreate ==
    /\ cli.state = "invoked"
    /\ cli.command = "create"
    /\ cli' = Called(cli, RunPipelineParameters, CreateKeywords)
    /\ UNCHANGED <<pipeline, resume, validation, preparation, ollama, composition>>

\* cli.py lines 76-78: script calls generate_script
CliScript ==
    /\ cli.state = "invoked"
    /\ cli.command = "script"
    /\ cli' = Called(cli, GenerateScriptParameters, ScriptKeywords)
    /\ UNCHANGED <<pipeline, resume, validation, preparation, ollama, composition>>

NextCli == CliCreate \/ CliScript

SpecCli == InitCli /\ [][NextCli]_vars

----------------------------------------------------------------------------
(* Reading the log *)

Indices(op) == {i \in 1..Len(log) : log[i].op = op}

\* the generate_clip calls made for the scene numbered n, in order
ClipCalls(n) == SelectSeq(log, LAMBDA c : c.op = "generate_clip" /\ c.scene = n)

\* the calls run_pipeline makes itself (load_model is made by generate_clip)
RunCalls == SelectSeq(log, LAMBDA c : c.op # "load_model")

ComposeInvoked == Indices("compose") # {}

\* the scene's clip attempts are over: one call that did not fail, or two calls
AttemptsFinished(n) ==
    LET calls == ClipCalls(n)
    IN  /\ Len(calls) >= 1
        /\ calls[1].result = "error" => Len(calls) = 2

\* the scene's clip generation succeeded, on the first attempt or on the retry
ClipSucceeded(n) == \E i \in Indices("generate_clip") :
                       log[i].scene = n /\ log[i].result = "ok"

\* the scene was skipped: both attempts failed
ClipSkipped(n) ==
    LET calls == ClipCalls(n)
    IN  Len(calls) = 2 /\ calls[1].result = "error" /\ calls[2].result = "error"

SceneNumbers == {script.scenes[k].scene_number : k \in 1..Len(script.scenes)}

\* the scenes whose clip survived, in script order
SurvivingScenes == SelectSeq(script.scenes, LAMBDA s : ClipSucceeded(s.scene_number))

\* the scene a clip path belongs to
SceneOfClip(path) ==
    CHOOSE k \in 1..Len(script.scenes) : ClipPath(script.scenes[k].scene_number) = path

----------------------------------------------------------------------------
(* Claims *)

\* C1: in the COMPOSE stage every surviving clip is paired with the narration
\* audio and the measured duration of the scene with the same scene_number.
C1_PairedBySceneNumber ==
    \A i \in 1..Len(clips_with_audio) :
        LET e == clips_with_audio[i]
            n == script.scenes[SceneOfClip(e.video_path)].scene_number
        IN  /\ e.audio_path = AudioPath(n)
            /\ e.target_duration = disk[AudioPath(n)].duration

\* C2: per scene generate_clip is called once, a second time with the same
\* arguments exactly when the first call failed, never a third time; a scene
\* whose two calls failed records no clip and the loop goes on to the next
\* scene without the run being aborted.
C2_RetryOnceThenSkip ==
    /\ \A k \in 1..Len(script.scenes) :
          LET n == script.scenes[k].scene_number
              calls == ClipCalls(n)
          IN  /\ Len(calls) <= 2
              /\ scene_idx > k => Len(calls) >= 1
              /\ Len(calls) = 2 => /\ calls[1].result = "error"
                                   /\ calls[2].args = calls[1].args
              /\ (scene_idx > k /\ calls[1].result = "error") => Len(calls) = 2
              /\ ClipSkipped(n) => /\ scene_idx > k
                                   /\ \A i \in 1..Len(clip_paths) :
                                         clip_paths[i] # ClipPath(n)
    /\ (RunCalls # <<>> /\ RunCalls[Len(RunCalls)].op = "generate_clip"
          /\ RunCalls[Len(RunCalls)].result = "error") => pc \in {"clips", "retry"}

\* C2 witness: a scene was skipped after two failed calls and a later scene
\* got its clip.
C2_Witness ==
    /\ pc = "done"
    /\ \E k \in 1..Len(script.scenes) :
          /\ ClipSkipped(script.scenes[k].scene_number)
          /\ k < Len(script.scenes)
          /\ ClipSucceeded(script.scenes[k + 1].scene_number)

\* C3: the list handed to the Compositor has one entry per scene whose clip
\* generation succeeded, none for a skipped scene, in script order.
C3_EntriesAreSurvivors ==
    \A c \in Indices("compose") :
        LET entries == log[c].args[1]
        IN  /\ Len(entries) = Len(SurvivingScenes)
            /\ \A i \in 1..Len(entries) :
                  entries[i].video_path = ClipPath(SurvivingScenes[i].scene_number)
            /\ entries = clips_with_audio

\* C3 witness: five scenes, scene 3 failed twice, the Compositor got the four
\* entries of scenes 1, 2, 4, 5.
C3_Witness ==
    /\ pc = "done"
    /\ Len(script.scenes) = 5
    /\ ClipSkipped(3)
    /\ ComposeInvoked
    /\ [i \in 1..Len(clips_with_audio) |-> clips_with_audio[i].video_path]
         = <<ClipPath(1), ClipPath(2), ClipPath(4), ClipPath(5)>>

\* C4: a failed synthesize call is the last call of the run: the run raises
\* that error, the scene is not synthesized again, no later scene is
\* synthesized, no clip is generated and nothing is composed.
C4_NarrationFailureAborts ==
    /\ \A i \in Indices("synthesize") :
          log[i].result = "error" =>
             /\ i = Len(log)
             /\ pc = "raised"
             /\ outcome = Raised("SynthesisError")
             /\ clip_paths = <<>> /\ clips_with_audio = <<>>
    /\ \A i, j \in Indices("synthesize") : log[i].scene = log[j].scene => i = j

\* C4 witness: the narration of the second scene failed after the first
\* succeeded.
C4_Witness ==
    /\ pc = "raised"
    /\ Len(tts_results) = 1
    /\ log[Len(log)].op = "synthesize" /\ log[Len(log)].scene = 2
    /\ log[Len(log)].result = "error"

\* C5: unload_model is called at most once, only after every scene's attempts
\* are over and before the Compositor is invoked, and once the loop of the
\* CLIPS stage is left it has been called and no pipeline is loaded.
C5_UnloadedOnceAfterLoop ==
    /\ Cardinality(Indices("unload_model")) <= 1
    /\ \A u \in Indices("unload_model") :
          /\ \A n \in SceneNumbers : AttemptsFinished(n)
          /\ \A g \in Indices("generate_clip") \cup Indices("load_model") : g < u
          /\ \A c \in Indices("compose") : u < c
    /\ (~skip_video /\ pc \in {"compose", "done"}) =>
          /\ Cardinality(Indices("unload_model")) = 1
          /\ pipe = None
    /\ ComposeInvoked => Cardinality(Indices("unload_model")) = 1

\* C5 witness: every scene was skipped and the model was unloaded once.
C5_Witness ==
    /\ pc = "compose"
    /\ ~skip_video
    /\ \A n \in SceneNumbers : ClipSkipped(n)
    /\ \E i \in Indices("load_model") : log[i].result = "ok"
    /\ Cardinality(Indices("unload_model")) = 1

\* C6: the model is loaded exactly once, before the first generate_clip call.
C6_LoadedOnceBeforeLoop ==
    Indices("generate_clip") # {} =>
        /\ Cardinality(Indices("load_model")) = 1
        /\ \A l \in Indices("load_model"), g \in Indices("generate_clip") : l < g

\* C7: when run_pipeline has returned or raised, no pipeline is left loaded.
C7_UnloadedOnEveryExit ==
    pc \in {"done", "raised"} => pipe = None

\* C8: calls occur in stage order; a generate_clip call is made only after
\* every scene's narration is there, and the Compositor is invoked only after
\* every scene's clip attempts are over and the model is unloaded.
StageOf(op) ==
    CASE op = "generate" -> 1
      [] op = "synthesize" -> 2
      [] op \in {"generate_clip", "load_model", "unload_model"} -> 3
      [] OTHER -> 4

C8_StagesInOrder ==
    /\ \A i \in 1..(Len(log) - 1) : StageOf(log[i].op) <= StageOf(log[i + 1].op)
    /\ Indices("generate_clip") # {} =>
          \A n \in SceneNumbers :
             \E s \in Indices("synthesize") : log[s].scene = n /\ log[s].result = "ok"
    /\ pc \in {"clips", "retry"} => Len(tts_results) = Len(script.scenes)
    /\ \A c \in Indices("compose") :
          /\ \A n \in SceneNumbers : AttemptsFinished(n)
          /\ \E u \in Indices("unload_model") : u < c
    /\ pc = "done" => Len(tts_results) = Len(script.scenes)

\* C8 witness: a run with a retry went through all four stages.
C8_Witness ==
    /\ pc = "done"
    /\ outcome = Returned(FinalPath)
    /\ \E n \in SceneNumbers : Len(ClipCalls(n)) = 2

\* C9: from the end of the SCRIPT stage on, whatever happens later,
\* script.json is on disk and holds the generated script.
C9_ScriptPersisted ==
    (pc # "script" /\ outcome # Raised("ScriptError")) =>
        /\ ScriptPath \in DOMAIN disk
        /\ disk[ScriptPath] = [json |-> JsonDumps(ModelDump(script))]
        /\ script # NoScript

\* C9 witness: composition failed and the script is still on disk.
C9_Witness ==
    /\ outcome = Raised("CompositionError")
    /\ ScriptPath \in DOMAIN disk
    /\ disk[ScriptPath] = [json |-> JsonDumps(ModelDump(script))]

\* C10: the Compositor is invoked exactly when a clip survived; with no clip
\* the run raises nothing, writes no final video and returns the path of
\* script.json.
C10_ComposeIffClips ==
    /\ \A c \in Indices("compose") : clip_paths # <<>> /\ log[c].args[1] # <<>>
    /\ pc = "done" => (ComposeInvoked <=> clip_paths # <<>>)
    /\ (pc = "done" /\ clip_paths = <<>>) =>
          /\ FinalPath \notin DOMAIN disk
          /\ outcome = Returned(ScriptPath)
    /\ (pc = "done" /\ clip_paths # <<>>) =>
          /\ FinalPath \in DOMAIN disk
          /\ outcome = Returned(FinalPath)
    /\ (pc = "raised" /\ scene_idx > Len(script.scenes) /\ script # NoScript) =>
          clip_paths # <<>>

\* C10 witness: every scene was skipped and the run returned script.json.
C10_Witness ==
    /\ pc = "done"
    /\ ~skip_video
    /\ \A n \in SceneNumbers : ClipSkipped(n)
    /\ outcome = Returned(ScriptPath)

C12_ResumeRebuildsEntries ==
    (outcome = Returned(FinalPath) /\ resume.composed) =>
        /\ resume.entries = clips_with_audio
        /\ \A i \in 1..Len(resume.entries) :
              LET e == resume.entries[i]
                  n == script.scenes[SceneOfClip(e.video_path)].scene_number
              IN  e.audio_path = AudioPath(n)

\* C13: compose_from_directory on a directory with no script.json, or with
\* no clip file at all, raises FileNotFoundError; the Compositor is not
\* invoked and no final video is written.
C13_ResumeNeedsScriptAndClips ==
    (/\ resume # NoResume
     /\ \/ ScriptPath \notin DOMAIN disk
        \/ \A n \in 1..MaxScenes : ClipPath(n) \notin DOMAIN disk)
    => /\ resume.state = "raised"
       /\ resume.value = IF ScriptPath \notin DOMAIN disk
                         THEN "FileNotFoundError: script.json"
                         ELSE "FileNotFoundError: clips"
       /\ ~resume.composed
       /\ resume.entries = <<>>
       /\ FinalPath \notin DOMAIN disk

\* C13 witness: a resume on the directory of a run whose clips all failed:
\* the script and every narration are there, no clip is.
C13_Witness ==
    /\ resume.state = "raised"
    /\ resume.value = "FileNotFoundError: clips"
    /\ ~skip_video
    /\ ScriptPath \in DOMAIN disk
    /\ \A n \in SceneNumbers : AudioPath(n) \in DOMAIN disk /\ ClipSkipped(n)

----------------------------------------------------------------------------
(* VideoScript construction: C14, C15, C16 (under SpecScript) *)

\* C14: every accepted script has scene_number values that start at 1 and
\* are strictly ascending (hence unique) along the scene list. The code
\* only requires scene_number >= 1 of each scene, so this is violated.
C14_SceneNumbersAscendFromOne ==
    constructed.ok =>
        /\ candidate.scenes[1].scene_number = 1
        /\ \A i \in 1..(Len(candidate.scenes) - 1) :
              candidate.scenes[i].scene_number < candidate.scenes[i + 1].scene_number

\* C15: construction succeeds only if the scene durations sum to a value in
\* [15 s, 60 s]; a script whose fields are all valid but whose total is
\* outside that range is rejected by the total-duration validator.
C15_TotalDurationInRange ==
    LET total == SumDurations(candidate.scenes)
    IN  /\ constructed.ok => total >= 150 /\ total <= 600
        /\ (constructed # NotConstructed /\ FieldsValid(candidate) /\ total < 150)
              => constructed = [ok |-> FALSE, error |-> "total below minimum"]
        /\ (constructed # NotConstructed /\ FieldsValid(candidate) /\ total > 600)
              => constructed = [ok |-> FALSE, error |-> "total above maximum"]

C15_Witness ==
    /\ constructed = [ok |-> FALSE, error |-> "total above maximum"]
    /\ FieldsValid(candidate)
    /\ SumDurations(candidate.scenes) = 650

\* C16: every accepted script has 3 to 12 scenes, each with a duration in
\* [2 s, 6 s], scene_number >= 1, a narration of at least 1 character and a
\* video prompt of at least 10 characters; a script violating one of these
\* is rejected.
C16_FieldBounds ==
    LET n == Len(candidate.scenes)
        within == /\ n >= 3 /\ n <= 12
                  /\ \A i \in 1..n :
                        /\ candidate.scenes[i].duration_seconds >= 20
                        /\ candidate.scenes[i].duration_seconds <= 60
                        /\ candidate.scenes[i].scene_number >= 1
                        /\ Len(candidate.scenes[i].narration_text) >= 1
                        /\ Len(candidate.scenes[i].video_prompt) >= 10
    IN  /\ constructed.ok => within
        /\ (constructed # NotConstructed /\ ~within)
              => constructed = [ok |-> FALSE, error |-> "field constraint"]

C16_Witness ==
    /\ constructed.ok
    /\ Len(candidate.scenes) = 12
    /\ \E i \in 1..12 : candidate.scenes[i].duration_seconds = 60
    /\ \E i \in 1..12 : candidate.scenes[i].duration_seconds = 20

----------------------------------------------------------------------------
(* Segment preparation: C17, C18, C19, C20 (under SpecSegment) *)

Prepared == segment # NoSegment

\* C17: with audio attached and the video shorter than the audio, the video
\* is slowed by the factor video_duration / audio_duration and the prepared
\* duration is exactly the audio duration; it is not cut, frozen, looped or
\* padded.
C17_ShortVideoStretched ==
    (Prepared /\ HasAudio(clip_info)
        /\ clip_info.video_duration < clip_info.audio_duration)
    => /\ segment.operation = "with_speed_scaled"
       /\ segment.factor[1] * clip_info.audio_duration
             = segment.factor[2] * clip_info.video_duration
       /\ segment.duration = clip_info.audio_duration
       /\ segment.audio = clip_info.audio_path

C17_Witness ==
    /\ Prepared /\ HasAudio(clip_info)
    /\ clip_info.video_duration = 40 /\ clip_info.audio_duration = 60
    /\ segment.duration = 60

\* C18: with audio attached and the video longer than the audio by more
\* than 0.5 s, the prepared duration is the audio duration plus 0.3 s; a
\* video longer by 0.5 s or less is not trimmed.
C18_LongVideoTrimmed ==
    (Prepared /\ HasAudio(clip_info)) =>
        /\ clip_info.video_duration > clip_info.audio_duration + 5
              => /\ segment.operation = "subclipped"
                 /\ segment.duration = clip_info.audio_duration + 3
        /\ (/\ clip_info.video_duration >= clip_info.audio_duration
            /\ clip_info.video_duration <= clip_info.audio_duration + 5)
              => segment.operation # "subclipped"

C18_Witness ==
    /\ Prepared /\ HasAudio(clip_info)
    /\ clip_info.video_duration = 80 /\ clip_info.audio_duration = 50
    /\ segment.duration = 53

\* C19 as stated: with audio attached and the two durations no more than
\* 0.5 s apart, the prepared duration is the original video duration. The
\* code stretches every video shorter than its audio, so this is violated
\* (video 5.0 s, audio 5.2 s gives 5.2 s).
C19_WithinToleranceUnchanged ==
    (Prepared /\ HasAudio(clip_info)
        /\ clip_info.video_duration - clip_info.audio_duration <= 5
        /\ clip_info.audio_duration - clip_info.video_duration <= 5)
    => /\ segment.duration = clip_info.video_duration
       /\ segment.operation = "none"

\* C19 amended: with audio attached, a video at least as long as the audio
\* and longer by at most 0.5 s keeps its duration unchanged; a video shorter
\* than the audio, by however little, is stretched to the audio duration.
C19_UnchangedOnlyWhenNotShorter ==
    (Prepared /\ HasAudio(clip_info)
        /\ clip_info.video_duration - clip_info.audio_duration <= 5
        /\ clip_info.audio_duration - clip_info.video_duration <= 5)
    => IF clip_info.video_duration >= clip_info.audio_duration
       THEN /\ segment.duration = clip_info.video_duration
            /\ segment.operation = "none"
       ELSE /\ segment.duration = clip_info.audio_duration
            /\ segment.operation = "with_speed_scaled"

C19_Witness ==
    /\ Prepared /\ HasAudio(clip_info)
    /\ clip_info.video_duration = 50 /\ clip_info.audio_duration = 52
    /\ segment.duration = 52

----------------------------------------------------------------------------
(* The narration loop and the pairing of a prefix: C24, C29 *)

\* C24: narration is synthesized one scene at a time in ascending
\* scene_number order, one call per scene, and after a narration stage
\* without failure the k-th result is the narration of the k-th scene, with
\* as many results as scenes. The loop follows the list, and the list need
\* not ascend in scene_number, so this is violated.
C24_NarrationAscending ==
    LET calls == SelectSeq(log, LAMBDA c : c.op = "synthesize")
    IN  /\ \A k \in 1..(Len(calls) - 1) : calls[k].scene < calls[k + 1].scene
        /\ (pc \in {"clips", "retry", "compose", "done"}) =>
              /\ Len(tts_results) = Len(script.scenes)
              /\ Len(calls) = Len(script.scenes)
              /\ \A k \in 1..Len(script.scenes) :
                    /\ tts_results[k].audio_path
                          = AudioPath(script.scenes[k].scene_number)
                    /\ disk[tts_results[k].audio_path].wav
                          = script.scenes[k].narration_text


\* the skipped scenes, if any, are the last ones of the scene list
SkippedAtEndOnly ==
    \A k \in 1..Len(script.scenes) :
        ClipSkipped(script.scenes[k].scene_number) =>
            \A j \in k..Len(script.scenes) : ClipSkipped(script.scenes[j].scene_number)

\* C29: when no scene is skipped, or the skipped scenes are all at the end
\* of the script, every surviving clip is paired with the narration audio
\* and the measured duration of its own scene.
C29_PrefixPairedWithOwnScene ==
    (clips_with_audio # <<>> /\ SkippedAtEndOnly) =>
        /\ Len(clips_with_audio) = Len(clip_paths)
        /\ \A i \in 1..Len(clips_with_audio) :
              LET e == clips_with_audio[i]
                  n == script.scenes[i].scene_number
              IN  /\ e.video_path = ClipPath(n)
                  /\ e.audio_path = AudioPath(n)
                  /\ e.target_duration = disk[AudioPath(n)].duration
                  /\ disk[AudioPath(n)].wav = script.scenes[i].narration_text

\* C29 witness: a composed run in the default voice whose last scene, and no
\* other, was skipped.
C29_Witness ==
    /\ clips_with_audio # <<>>
    /\ reference_voice = None
    /\ ClipSkipped(script.scenes[Len(script.scenes)].scene_number)
    /\ Len(clips_with_audio) = Len(script.scenes) - 1


----------------------------------------------------------------------------
(* Bounds of a segment with audio: C28 (under SpecSegment) *)

\* C28: a segment prepared with audio attached, from a video and an audio of
\* positive duration, lasts at least as long as the audio and at most 0.5 s
\* longer.
C28_DurationWithinAudioWindow ==
    (Prepared /\ HasAudio(clip_info)
        /\ clip_info.video_duration > 0 /\ clip_info.audio_duration > 0)
    => /\ segment.duration >= clip_info.audio_duration
       /\ segment.duration <= clip_info.audio_duration + 5

\* C28 witness: a video exactly 0.5 s longer than its audio keeps its length.
C28_Witness ==
    /\ Prepared /\ HasAudio(clip_info)
    /\ clip_info.audio_duration = 50
    /\ clip_info.video_duration = 55
    /\ segment.duration = 55


----------------------------------------------------------------------------
(* The persisted script read back: C22 (under SpecScript) *)

\* C22: a valid script dumped to JSON as run_pipeline does and validated
\* from that JSON as compose_from_directory does is accepted again, with
\* equal title, topic, style notes, negative prompt and an equal scene list
\* in the same order.
C22_RoundTrip ==
    reloaded # NotLoaded =>
        /\ reloaded.ok
        /\ reloaded.script.title = candidate.title
        /\ reloaded.script.topic = candidate.topic
        /\ reloaded.script.style_notes = candidate.style_notes
        /\ reloaded.script.negative_prompt = candidate.negative_prompt
        /\ Len(reloaded.script.scenes) = Len(candidate.scenes)
        /\ \A i \in 1..Len(candidate.scenes) :
              reloaded.script.scenes[i] = candidate.scenes[i]
        /\ VideoScriptConstruct(reloaded.script).ok

\* C22 witness: a reloaded script with a scene of 2.5 s and scenes of 6.0 s.
C22_Witness ==
    /\ reloaded.ok
    /\ \E i \in 1..Len(candidate.scenes) : candidate.scenes[i].duration_seconds = 25
    /\ \E i \in 1..Len(candidate.scenes) : candidate.scenes[i].duration_seconds = 60


----------------------------------------------------------------------------
(* The generator's pipeline under any calls: C27 (under SpecWan) *)

\* C27: on one WanVideoGenerator, whatever the sequence of calls: load_model
\* builds a pipeline only when none is loaded and changes nothing otherwise;
\* generate_clip runs the pipeline only with one loaded, loading it first
\* when none is (also after an unload); unload_model always leaves no
\* pipeline loaded and changes nothing when none is.
C27_PipelineLifecycle ==
    /\ \A i \in 1..Len(log) :
          LET e == log[i]
          IN  /\ e.op = "load_model" =>
                    /\ e.before # None => (e.after = e.before /\ e.load_result = "noop")
                    /\ e.before = None => e.load_result # "noop"
                    /\ (e.before = None /\ e.load_result = "ok") => e.after # None
              /\ e.op = "generate_clip" =>
                    /\ e.ran => e.after # None
                    /\ e.before = None => e.load_result # "noop"
                    /\ e.before # None => (e.after = e.before /\ e.load_result = "noop")
                    /\ e.result = "ok" => e.ran
              /\ e.op = "unload_model" =>
                    /\ e.after = None
                    /\ e.result = "ok"
              /\ i < Len(log) => log[i + 1].before = e.after
    /\ log # <<>> => pipe = log[Len(log)].after

\* C27 witness: a loaded pipeline is unloaded and the next generate_clip
\* loads one again and produces its clip.
C27_Witness ==
    \E i \in 1..(Len(log) - 1) :
        /\ log[i].op = "unload_model" /\ log[i].before # None
        /\ log[i + 1].op = "generate_clip" /\ log[i + 1].load_result = "ok"
        /\ log[i + 1].ran /\ log[i + 1].result = "ok"


----------------------------------------------------------------------------
(* The retries of the Ollama provider: C26 (under SpecOllama) *)

\* C26: when the model calls themselves succeed, generate calls the model
\* at most 3 times, returns the first response that validates as a
\* VideoScript without a further call, and raises exactly when all 3
\* responses failed validation.
C26_ReturnsFirstValid ==
    LET n == Len(ollama.contents)
        valid(k) == ValidateContent(ollama.contents[k]).ok
    IN  ollama.state # "idle" =>
          /\ ollama.calls <= 3
          /\ \A k \in 1..(n - 1) : ~valid(k)
          /\ ollama.state = "returned" =>
                /\ n = ollama.calls
                /\ valid(n)
                /\ ollama.result = ValidateContent(ollama.contents[n]).script
          /\ ollama.state = "running" => (n = ollama.calls /\ \A k \in 1..n : ~valid(k))
          /\ (ollama.state = "raised" /\ n = ollama.calls) =>
                (n = 3 /\ \A k \in 1..3 : ~valid(k))
          /\ (n = 3 /\ ollama.calls = 3 /\ \A k \in 1..3 : ~valid(k)) =>
                ollama.state \in {"running", "raised"}

\* C26 witness: two responses failed validation and the third was returned.
C26_Witness ==
    /\ ollama.state = "returned"
    /\ ollama.calls = 3
    /\ ollama.contents[1] = Malformed
    /\ ollama.contents[2] # Malformed
    /\ ollama.result.scenes # <<>>


----------------------------------------------------------------------------
(* Compositor.compose: C21, C25 (under SpecCompose) *)

\* C21: every clip and audio handle opened while compose prepares its
\* segments is released when compose has returned or raised. Nothing is
\* closed when the render or a later preparation raises, so this is
\* violated.
C21_HandlesReleased ==
    composition.phase \in {"returned", "raised"} => composition.open = {}

\* C25: the prepared segments are joined in list order; they overlap by
\* crossfade_duration exactly when there is more than one segment and the
\* crossfade is positive, and the whole lasts the sum of the prepared
\* durations minus (n - 1) times that overlap: the plain sum for one
\* segment or a zero crossfade.
C25_JoinedInOrderWithOverlap ==
    composition.phase \in {"close", "returned"} =>
        LET segs == composition.video_segments
            n == Len(segs)
            overlap == IF n > 1 /\ composition.crossfade_duration > 0
                       THEN composition.crossfade_duration ELSE 0
        IN  /\ n = Len(composition.clips)
            /\ \A i \in 1..n : segs[i] = PreparedSegment(composition.clips[i])
            /\ composition.final.segments = segs
            /\ composition.final.duration = SegmentsDuration(segs) - (n - 1) * overlap
            /\ \A i \in 1..(n - 1) :
                  composition.final.starts[i + 1]
                     = composition.final.starts[i] + segs[i].duration - overlap
            /\ composition.final.starts[1] = 0

\* C25 witness: three segments of 6.0 s, 5.3 s and 5.0 s joined with the
\* default crossfade of 0.3 s last 15.7 s.
C25_Witness ==
    /\ composition.phase = "returned"
    /\ composition.crossfade_duration = 3
    /\ Len(composition.video_segments) = 3
    /\ composition.video_segments[1].duration = 60
    /\ composition.video_segments[2].duration = 53
    /\ composition.video_segments[3].duration = 50
    /\ composition.final.duration = 157


----------------------------------------------------------------------------
(* The provider a command runs with: C23 (under SpecCli) *)

\* C23: the create and the script command run the pipeline with the
\* provider the engine option names, Ollama for "ollama" and Claude for
\* "claude", and the run enters the SCRIPT stage with it. Both commands pass
\* engine= to functions that have no such parameter, so this is violated.
C23_EngineSelectsProvider ==
    cli.state \notin {"idle", "invoked"} =>
        /\ cli.state = "entered"
        /\ cli.provider = cli.args.engine

====
